---- MODULE Spec2Model ----
(***************************************************************************)
(* Model of src/main.go: the partition / concurrent sort / k-way merge     *)
(* pipeline (splitIntoChunks, sortChunksConcurrently, mergeSortedChunks)   *)
(* and its three callers: runRandom, runInputFile and runDirectory.         *)
(*                                                                         *)
(* Memory model.  A Go slice is a window on a backing array.  `numbers` is *)
(* the backing array of the caller's slice (a TLA+ sequence: Go index j is *)
(* numbers[j+1]).  A chunk is the slice header numbers[lo:hi], kept as the *)
(* record [lo |-> lo, hi |-> hi]; it owns no storage of its own, so a      *)
(* write through a chunk is a write to `numbers`.                          *)
(***************************************************************************)
EXTENDS Integers, Sequences, FiniteSets

VARIABLES
    original,   \* the values the caller supplied (history; never written)
    numbers,    \* backing array of the caller's slice
    pc,         \* position of the calling goroutine
    chunks,     \* [][]int: function 0..k-1 -> slice header [lo, hi]
    wg,         \* sync.WaitGroup counter
    spawned,    \* loop variable of `for i := range chunks` in the sorter
    task,       \* per goroutine: "none", "ready", "sorted", "done"
    touched,    \* per goroutine: Go indices of numbers it has read or written
    indices,    \* merge cursors, function 0..k-1 -> Nat
    result,     \* merge output
    minChunk,   \* chunk selected by the last scan of the merge loop (-1: none)
    mode,       \* the caller: "r", "i", "d", or "direct" (a function on its own)
    console,    \* what has been printed: sequence of [tag, shown]
    files,      \* the input file (-i) or the directory listing (-d)
    next,       \* index in files of the file being processed
    out,        \* output directory: per index of files, the file written, if any
    ioFailed,   \* some file or directory operation of this run has failed
    firstResult \* <<result of the preceding run>> when this run sorts it again

\* what the callers keep besides the sequence
envVars == <<mode, console, files, next, out, ioFailed, firstResult>>

vars == <<original, numbers, pc, chunks, wg, spawned, task, touched,
          indices, result, minChunk, envVars>>

-----------------------------------------------------------------------------
(* Bounds of the model *)

\* largest value of an input element (elements are 0..MaxVal)
MaxVal == 2
\* longest input handed to a caller mode
MaxLen == 10
\* inputs of the pipeline have at most this many non-zero elements
MaxNonZero == 2
\* longest input handed directly to splitIntoChunks
MaxSplitLen == 101
\* largest element of a chunk handed directly to mergeSortedChunks
MaxMergeVal == 1
\* most chunks handed directly to mergeSortedChunks
MaxChunks == 3
\* longest chunk handed directly to mergeSortedChunks
MaxChunkLen == 2
\* most chunks handed to mergeSortedChunks where termination is checked
MaxFairChunks == 2
\* most entries of the directory handed to runDirectory
MaxFiles == 2
\* most integers in an input file, and largest N given to -r with the files
MaxFileLen == 10
\* longest input where the barrier's progress is checked
MaxFairLen == 17

(* Program constants *)

\* runRandom, runInputFile, runDirectory: fewer numbers than this is an error
MinNumbers == 10
\* splitIntoChunks: floor of the chunk count
MinChunks == 4

-----------------------------------------------------------------------------
(* Helpers on sequences *)

Values == 0..MaxVal

Max(a, b) == IF a >= b THEN a ELSE b

\* Go's s[lo:hi] as a sequence of values
Slice(s, lo, hi) == [j \in 1..(hi - lo) |-> s[lo + j]]

\* number of occurrences of v in s
Count(s, v) == Cardinality({j \in 1..Len(s) : s[j] = v})

\* the values that occur in s
Elems(s) == {s[j] : j \in 1..Len(s)}

NonDecreasing(s) == \A j \in 1..(Len(s) - 1) : s[j] <= s[j + 1]

SameMultiset(s, t) ==
    /\ Len(s) = Len(t)
    /\ \A j \in 1..Len(s) : Count(s, s[j]) = Count(t, s[j])

RECURSIVE InsertSorted(_, _)
InsertSorted(x, s) ==
    IF s = <<>> THEN <<x>>
    ELSE IF x <= Head(s) THEN <<x>> \o s
    ELSE <<Head(s)>> \o InsertSorted(x, Tail(s))

\* sort.Ints: the ascending arrangement of s
RECURSIVE SortInts(_)
SortInts(s) == IF s = <<>> THEN <<>> ELSE InsertSorted(Head(s), SortInts(Tail(s)))

-----------------------------------------------------------------------------
(* splitIntoChunks *)

\* int(math.Ceil(math.Sqrt(float64(n)))): for the lengths a slice can have
\* float64(n) is exact and math.Sqrt is correctly rounded, so the result is
\* the integer square root rounded up.
RECURSIVE FloorSqrtFrom(_, _)
FloorSqrtFrom(n, k) == IF (k + 1) * (k + 1) > n THEN k ELSE FloorSqrtFrom(n, k + 1)

\* mutation: int(math.Sqrt(float64(n))), the root truncated, not rounded up
CeilSqrt_Truncated(n) == FloorSqrtFrom(n, 0)

CeilSqrt(n) ==
    LET f == FloorSqrtFrom(n, 0) IN IF f * f = n THEN f ELSE f + 1

\* mutation: the chunk count is raised to 5 when smaller
numChunksOf_Floor5(n) == IF CeilSqrt(n) < 5 THEN 5 ELSE CeilSqrt(n)

\* numChunks := int(math.Ceil(math.Sqrt(float64(n)))), raised to 4 when smaller
numChunksOf(n) == IF CeilSqrt(n) < MinChunks THEN MinChunks ELSE CeilSqrt(n)

\* mutation: the extra elements go to the last `remainder` chunks
chunkSize_Tail(n, i) ==
    LET baseSize  == n \div numChunksOf(n)
        remainder == n % numChunksOf(n)
    IN  IF i >= numChunksOf(n) - remainder THEN baseSize + 1 ELSE baseSize

\* size of chunk i
chunkSize(n, i) ==
    LET baseSize  == n \div numChunksOf(n)
        remainder == n % numChunksOf(n)
    IN  IF i < remainder THEN baseSize + 1 ELSE baseSize

\* mutation: index = i * baseSize, the extra elements of earlier chunks forgotten
chunkStart_Base(n, i) == i * (n \div numChunksOf(n))

\* value of `index` when the loop body runs for chunk i
RECURSIVE chunkStart(_, _)
chunkStart(n, i) == IF i = 0 THEN 0 ELSE chunkStart(n, i - 1) + chunkSize(n, i - 1)

\* the chunk collection: chunks[i] = numbers[index : index+size]
splitChunks(n) ==
    [i \in 0..(numChunksOf(n) - 1) |->
        [lo |-> chunkStart(n, i), hi |-> chunkStart(n, i) + chunkSize(n, i)]]

\* a slice expression s[lo:hi] panics unless 0 <= lo <= hi <= cap(s)
SliceInRange(c, cap) == 0 <= c.lo /\ c.lo <= c.hi /\ c.hi <= cap

NumChunks == Cardinality(DOMAIN chunks)
ChunkIds == DOMAIN chunks
ChunkLen(i) == chunks[i].hi - chunks[i].lo
\* contents of chunk i, read through its header
Chunk(i) == Slice(numbers, chunks[i].lo, chunks[i].hi)
\* Go indices of numbers that chunk i covers
ChunkPositions(i) == chunks[i].lo .. (chunks[i].hi - 1)

-----------------------------------------------------------------------------
(* Initial states *)

\* sequences of length n over Values with at most MaxNonZero non-zero elements
SparseSeqs(n) ==
    {s \in [1..n -> Values] : Cardinality({j \in 1..n : s[j] # 0}) <= MaxNonZero}

Inputs == UNION {SparseSeqs(n) : n \in 0..MaxLen}

\* state of everything the pipeline creates, before it has run
Idle ==
    /\ chunks = <<>>
    /\ wg = 0
    /\ spawned = 0
    /\ task = <<>>
    /\ touched = <<>>
    /\ indices = <<>>
    /\ result = <<>>
    /\ minChunk = -1

\* the callers' state when caller m holds no file and has printed nothing
NoEnv(m) ==
    /\ mode = m
    /\ console = <<>>
    /\ files = <<>>
    /\ next = 1
    /\ out = <<>>
    /\ ioFailed = FALSE
    /\ firstResult = <<>>

\* runRandom holds the sequence it is about to check and sort (runInputFile
\* is in the same position once its file has been read)
Init ==
    /\ numbers \in Inputs
    /\ original = numbers
    /\ pc = "start"
    /\ Idle
    /\ NoEnv("r")

\* splitIntoChunks called directly on a slice of any length, with distinct
\* elements b, b+1, ... so that every position is told apart
InitSplit ==
    /\ \E n \in 0..MaxSplitLen, b \in Values : numbers = [j \in 1..n |-> b + j - 1]
    /\ original = numbers
    /\ pc = "split"
    /\ Idle
    /\ NoEnv("direct")

\* ascending sequences of at most MaxChunkLen elements
SortedChunks ==
    UNION {{s \in [1..n -> 0..MaxMergeVal] : NonDecreasing(s)} : n \in 0..MaxChunkLen}

\* the collection [[1,4,7],[2,5],[3,6,8,9]]
MergeExample ==
    [i \in 0..2 |-> CASE i = 0 -> <<1, 4, 7>>
                      [] i = 1 -> <<2, 5>>
                      [] i = 2 -> <<3, 6, 8, 9>>]

ChunkLists == UNION {[0..(k - 1) -> SortedChunks] : k \in 0..MaxChunks} \cup {MergeExample}

\* the first i chunks of the list cl, laid out one after another
RECURSIVE Flat(_, _)
Flat(cl, i) == IF i = 0 THEN <<>> ELSE Flat(cl, i - 1) \o cl[i - 1]

\* the collections for which termination is checked
FairChunkLists ==
    UNION {[0..(k - 1) -> SortedChunks] : k \in 0..MaxFairChunks} \cup {MergeExample}

\* mergeSortedChunks called directly on a collection out of lists
MergeEntry(lists) ==
    /\ \E cl \in lists :
         /\ numbers = Flat(cl, Cardinality(DOMAIN cl))
         /\ chunks = [i \in DOMAIN cl |->
                        [lo |-> Len(Flat(cl, i)), hi |-> Len(Flat(cl, i + 1))]]
    /\ original = numbers
    /\ pc = "merge_begin"
    /\ wg = 0
    /\ spawned = 0
    /\ task = <<>>
    /\ touched = <<>>
    /\ indices = <<>>
    /\ result = <<>>
    /\ minChunk = -1
    /\ NoEnv("direct")

\* mergeSortedChunks called directly on a collection of ascending chunks
InitMerge == MergeEntry(ChunkLists)

InitMergeFair == MergeEntry(FairChunkLists)

-----------------------------------------------------------------------------
(* Files and directories *)

\* a line of a text file after strings.TrimSpace
IntLine(v) == [k |-> "int", v |-> v]
BlankLine == [k |-> "blank", v |-> 0]
BadLine == [k |-> "bad", v |-> 0]

\* n distinct integers, descending: n-1, ..., 0
Desc(n) == [j \in 1..n |-> n - j]

\* s with x put in after its first element (in front when s is empty)
InsertSecond(s, x) ==
    IF s = <<>> THEN <<x>> ELSE <<Head(s)>> \o <<x>> \o Tail(s)

PlainLines(n) == [j \in 1..n |-> IntLine(Desc(n)[j])]

FileLens == (MinNumbers - 1)..MaxFileLen

\* a directory entry: whether its name ends in .txt, whether opening and
\* reading it work, and its lines
File(txt, io, lines) == [txt |-> txt, io |-> io, lines |-> lines]

TextFiles ==
    UNION {{File(TRUE, "ok", PlainLines(n)),
            File(TRUE, "ok", InsertSecond(PlainLines(n), BlankLine)),
            File(TRUE, "ok", InsertSecond(PlainLines(n), BadLine))} : n \in FileLens}
    \cup {File(TRUE, "open_fails", PlainLines(MinNumbers)),
          File(TRUE, "read_fails", PlainLines(MinNumbers))}

DirEntries == TextFiles \cup {File(FALSE, "ok", PlainLines(MinNumbers))}

Listings == UNION {[1..k -> DirEntries] : k \in 0..MaxFiles}

NotWritten == [written |-> FALSE, data |-> <<>>, complete |-> FALSE]

\* the callers' state on entry with the given files
Env(m, fs) ==
    /\ mode = m
    /\ console = <<>>
    /\ files = fs
    /\ next = 1
    /\ out = [k \in 1..Len(fs) |-> NotWritten]
    /\ ioFailed = FALSE
    /\ firstResult = <<>>

\* main has parsed its flags and calls runRandom(n), runInputFile(path) or
\* runDirectory(dir)
InitModes ==
    /\ Idle
    /\ \/ /\ \E n \in FileLens : numbers = Desc(n)
          /\ pc = "start"
          /\ Env("r", <<>>)
       \/ /\ numbers = <<>>
          /\ pc = "read"
          /\ \E f \in TextFiles : Env("i", <<f>>)
       \/ /\ numbers = <<>>
          /\ pc = "dir_begin"
          /\ \E fs \in Listings : Env("d", fs)
    /\ original = numbers

\* the lines from k on, parsed after acc: blank lines are skipped, a line
\* that strconv.Atoi rejects ends the read with an error
RECURSIVE parseFrom(_, _, _)
parseFrom(lines, k, acc) ==
    IF k > Len(lines) THEN [ok |-> TRUE, nums |-> acc]
    ELSE IF lines[k].k = "blank" THEN parseFrom(lines, k + 1, acc)
    ELSE IF lines[k].k = "bad" THEN [ok |-> FALSE, nums |-> <<>>]
    ELSE parseFrom(lines, k + 1, Append(acc, lines[k].v))

\* readNumbersFromFile returns a non-nil error
readFails(f) == f.io # "ok" \/ ~parseFrom(f.lines, 1, <<>>).ok

\* mutation: runDirectory goes on to the next file when a file cannot be read
abortOnReadError_Continue == FALSE

\* `if err != nil { return err }` after readNumbersFromFile
abortOnReadError == TRUE

\* readNumbersFromFile(path) and the caller's check of its error
ReadFile ==
    /\ pc = "read"
    /\ LET f == files[next]
       IN  IF readFails(f)
           THEN /\ ioFailed' = (ioFailed \/ f.io # "ok")
                /\ IF abortOnReadError
                   THEN pc' = "error" /\ next' = next
                   ELSE pc' = "dir_loop" /\ next' = next + 1
                /\ UNCHANGED <<numbers, original>>
           ELSE /\ numbers' = parseFrom(f.lines, 1, <<>>).nums
                /\ original' = numbers'
                /\ pc' = "start"
                /\ UNCHANGED <<ioFailed, next>>
    /\ UNCHANGED <<chunks, wg, spawned, task, touched, indices, result, minChunk,
                   mode, console, files, out, firstResult>>

\* runDirectory up to its loop: os.Stat, os.MkdirAll, os.ReadDir
DirBegin ==
    /\ pc = "dir_begin"
    /\ \E o \in {"ok", "stat_fails", "mkdir_fails", "readdir_fails"} :
         /\ pc' = IF o = "ok" THEN "dir_loop" ELSE "error"
         /\ ioFailed' = (o # "ok")
    /\ UNCHANGED <<original, numbers, chunks, wg, spawned, task, touched, indices,
                   result, minChunk, mode, console, files, next, out, firstResult>>

\* `for _, f := range files`: the end of the listing returns nil, an entry
\* that is no .txt file is skipped, a .txt file is read
DirLoop ==
    /\ pc = "dir_loop"
    /\ IF next > Len(files) THEN pc' = "done" /\ next' = next
       ELSE IF ~files[next].txt THEN pc' = pc /\ next' = next + 1
       ELSE pc' = "read" /\ next' = next
    /\ UNCHANGED <<original, numbers, chunks, wg, spawned, task, touched, indices,
                   result, minChunk, mode, console, files, out, ioFailed,
                   firstResult>>

\* writeNumbersToFile returns a non-nil error: only when os.Create fails (the
\* error of fmt.Fprintln is dropped)
writeReturnsError(o) == o = "create_fails"

\* writeNumbersToFile(outputPath, result), the caller's check of its error and
\* the end of the loop body, where the iteration's locals go away
DirWrite ==
    /\ pc = "write"
    /\ \E o \in {"ok", "create_fails", "write_fails"} :
         /\ ioFailed' = (ioFailed \/ o # "ok")
         /\ out' = IF o = "create_fails" THEN out
                   ELSE [out EXCEPT ![next] = [written |-> TRUE, data |-> result,
                                               complete |-> (o = "ok")]]
         /\ IF writeReturnsError(o)
            THEN /\ pc' = "error"
                 /\ UNCHANGED <<original, numbers, chunks, wg, spawned, task,
                                touched, indices, result, minChunk, next>>
            ELSE /\ pc' = "dir_loop"
                 /\ next' = next + 1
                 /\ numbers' = <<>>
                 /\ original' = <<>>
                 /\ chunks' = <<>>
                 /\ wg' = 0
                 /\ spawned' = 0
                 /\ task' = <<>>
                 /\ touched' = <<>>
                 /\ indices' = <<>>
                 /\ result' = <<>>
                 /\ minChunk' = -1
    /\ UNCHANGED <<mode, console, files, firstResult>>

-----------------------------------------------------------------------------
(* Callers: the length check of runRandom, runInputFile and runDirectory *)

\* mutation: `n < 9`
TooFew_Nine(n) == n < MinNumbers - 1

TooFew(n) == n < MinNumbers

CallerReject ==
    /\ pc = "start"
    /\ TooFew(Len(numbers))
    /\ pc' = "error"
    /\ UNCHANGED <<envVars, original, numbers, chunks, wg, spawned, task, touched,
                   indices, result, minChunk>>

\* runRandom and runInputFile print, runDirectory does not
Prints == mode \in {"r", "i"}

Report(tag, shown) == [tag |-> tag, shown |-> shown]

\* what printChunks(chunks) shows
shownChunks == [i \in ChunkIds |-> Chunk(i)]

\* the check passes; "Original numbers:" is printed and the pipeline entered
CallerAccept ==
    /\ pc = "start"
    /\ ~TooFew(Len(numbers))
    /\ console' = IF Prints THEN Append(console, Report("original", numbers))
                  ELSE console
    /\ pc' = "split"
    /\ UNCHANGED <<original, numbers, chunks, wg, spawned, task, touched,
                   indices, result, minChunk, mode, files, next, out, ioFailed,
                   firstResult>>

\* mutation: processAndPrint goes from the split straight to the sort
afterSplit_NoReport == "add"

\* where each function of the pipeline returns to
afterSplit == IF Prints THEN "print_before" ELSE "add"
afterSort == IF Prints THEN "print_after" ELSE "merge_begin"
afterMerge == IF Prints THEN "print_final" ELSE IF mode = "d" THEN "write" ELSE "done"

-----------------------------------------------------------------------------
(* processAndPrint: the reports between the calls *)

PrintBefore ==
    /\ pc = "print_before"
    /\ console' = Append(console, Report("before", shownChunks))
    /\ pc' = "add"
    /\ UNCHANGED <<original, numbers, chunks, wg, spawned, task, touched,
                   indices, result, minChunk, mode, files, next, out, ioFailed,
                   firstResult>>

PrintAfter ==
    /\ pc = "print_after"
    /\ console' = Append(console, Report("after", shownChunks))
    /\ pc' = "merge_begin"
    /\ UNCHANGED <<original, numbers, chunks, wg, spawned, task, touched,
                   indices, result, minChunk, mode, files, next, out, ioFailed,
                   firstResult>>

PrintFinal ==
    /\ pc = "print_final"
    /\ console' = Append(console, Report("final", result))
    /\ pc' = "done"
    /\ UNCHANGED <<original, numbers, chunks, wg, spawned, task, touched,
                   indices, result, minChunk, mode, files, next, out, ioFailed,
                   firstResult>>

-----------------------------------------------------------------------------
(* splitIntoChunks(numbers) *)

SplitIntoChunks ==
    /\ pc = "split"
    /\ LET n == Len(numbers)
           c == splitChunks(n)
       IN  IF \A i \in DOMAIN c : SliceInRange(c[i], n)
           THEN /\ chunks' = c
                /\ pc' = afterSplit
           ELSE /\ chunks' = chunks
                /\ pc' = "panic"
    /\ UNCHANGED <<envVars, original, numbers, wg, spawned, task, touched,
                   indices, result, minChunk>>

-----------------------------------------------------------------------------
(* sortChunksConcurrently(chunks) *)

\* mutation: wg.Add(len(chunks) - 1)
addDelta_Short == NumChunks - 1

\* wg.Add(len(chunks))
addDelta == NumChunks

WgAdd ==
    /\ pc = "add"
    /\ wg' = wg + addDelta
    /\ spawned' = 0
    /\ task' = [i \in ChunkIds |-> "none"]
    /\ touched' = [i \in ChunkIds |-> {}]
    /\ pc' = "sorting"
    /\ UNCHANGED <<envVars, original, numbers, chunks, indices, result, minChunk>>

\* go func(i int) {...}(i): one iteration of `for i := range chunks`
Spawn ==
    /\ pc = "sorting"
    /\ spawned < NumChunks
    /\ task' = [task EXCEPT ![spawned] = "ready"]
    /\ spawned' = spawned + 1
    /\ UNCHANGED <<envVars, original, numbers, pc, chunks, wg, touched, indices, result,
                   minChunk>>

\* mutation: the closure reads the loop variable instead of its parameter and
\* sees the value the loop ended with
sortTarget_Captured(i) == NumChunks - 1

\* the chunk goroutine i sorts: chunks[i]
sortTarget(i) == i

\* mutation: the goroutine sorts a copy of its chunk
sortedInPlace_Copy(s, lo, hi) == s

\* mutation: the goroutine sorts numbers[lo:], everything from its chunk on
sortedInPlace_ToEnd(s, lo, hi) ==
    [j \in 1..Len(s) |->
        IF lo < j THEN SortInts(Slice(s, lo, Len(s)))[j - lo] ELSE s[j]]

\* numbers after sort.Ints on the slice numbers[lo:hi]
sortedInPlace(s, lo, hi) ==
    [j \in 1..Len(s) |->
        IF lo < j /\ j <= hi THEN SortInts(Slice(s, lo, hi))[j - lo] ELSE s[j]]

\* sort.Ints(chunks[i]) in goroutine i
TaskSort(i) ==
    /\ task[i] = "ready"
    /\ LET c == sortTarget(i)
       IN  /\ numbers' = sortedInPlace(numbers, chunks[c].lo, chunks[c].hi)
           /\ touched' = [touched EXCEPT ![i] = ChunkPositions(c)]
    /\ task' = [task EXCEPT ![i] = "sorted"]
    /\ UNCHANGED <<envVars, original, pc, chunks, wg, spawned, indices, result, minChunk>>

\* the deferred wg.Done() of goroutine i; a negative counter panics
TaskDone(i) ==
    /\ task[i] = "sorted"
    /\ task' = [task EXCEPT ![i] = "done"]
    /\ wg' = wg - 1
    /\ pc' = IF wg - 1 < 0 THEN "panic" ELSE pc
    /\ UNCHANGED <<envVars, original, numbers, chunks, spawned, touched, indices, result,
                   minChunk>>

\* mutation: wg.Wait() left out
waitReleased_NoWait == TRUE

\* wg.Wait() returns when the counter is zero
waitReleased == wg = 0

WgWait ==
    /\ pc = "sorting"
    /\ spawned = NumChunks
    /\ waitReleased
    /\ pc' = afterSort
    /\ UNCHANGED <<envVars, original, numbers, chunks, wg, spawned, task, touched,
                   indices, result, minChunk>>

-----------------------------------------------------------------------------
(* mergeSortedChunks(chunks) *)

\* chunks[i][indices[i]]
Cursor(i) == numbers[chunks[i].lo + indices[i] + 1]

\* mutation: `indices[i] <= len(chunks[i])`
Exhausted_OffByOne(i) == ~(indices[i] <= ChunkLen(i))

\* the guard `indices[i] < len(chunks[i])` fails: chunk i is skipped
Exhausted(i) == ~(indices[i] < ChunkLen(i))

\* the index expression chunks[i][indices[i]] panics unless this holds
readInRange(i) == 0 <= indices[i] /\ indices[i] < ChunkLen(i)

\* mutation: `val <= minVal`, the last of equal candidates wins
replaces_LastWins(val, minVal) == val <= minVal

\* mutation: `val > minVal`, the comparison reversed
replaces_Greater(val, minVal) == val > minVal

\* `val < minVal`: val replaces the current candidate
replaces(val, minVal) == val < minVal

\* the scan `for i := range chunks` from chunk i on, with the candidate so far
RECURSIVE scanFrom(_, _, _)
scanFrom(i, mc, mv) ==
    IF i >= NumChunks THEN [minChunk |-> mc, minVal |-> mv, panic |-> FALSE]
    ELSE IF Exhausted(i) THEN scanFrom(i + 1, mc, mv)
    ELSE IF ~readInRange(i) THEN [minChunk |-> mc, minVal |-> mv, panic |-> TRUE]
    ELSE IF mc = -1 \/ replaces(Cursor(i), mv)
         THEN scanFrom(i + 1, i, Cursor(i))
         ELSE scanFrom(i + 1, mc, mv)

scan == scanFrom(0, -1, 0)

\* result := []int{}; indices := make([]int, len(chunks))
MergeBegin ==
    /\ pc = "merge_begin"
    /\ result' = <<>>
    /\ indices' = [i \in ChunkIds |-> 0]
    /\ minChunk' = -1
    /\ pc' = "merge"
    /\ UNCHANGED <<envVars, original, numbers, chunks, wg, spawned, task, touched>>

\* one iteration of the outer loop that appends (or panics in its scan)
MergeStep ==
    /\ pc = "merge"
    /\ scan.panic \/ scan.minChunk # -1
    /\ IF scan.panic
       THEN /\ pc' = "panic"
            /\ UNCHANGED <<result, indices, minChunk>>
       ELSE /\ result' = Append(result, scan.minVal)
            /\ indices' = [indices EXCEPT ![scan.minChunk] = @ + 1]
            /\ minChunk' = scan.minChunk
            /\ pc' = pc
    /\ UNCHANGED <<envVars, original, numbers, chunks, wg, spawned, task, touched>>

\* the iteration that finds no chunk and breaks; the function returns result
MergeReturn ==
    /\ pc = "merge"
    /\ ~scan.panic
    /\ scan.minChunk = -1
    /\ minChunk' = -1
    /\ pc' = afterMerge
    /\ UNCHANGED <<envVars, original, numbers, chunks, wg, spawned, task, touched,
                   indices, result>>

-----------------------------------------------------------------------------
(* Specifications *)

Next ==
    \/ CallerReject
    \/ CallerAccept
    \/ SplitIntoChunks
    \/ WgAdd
    \/ Spawn
    \/ \E i \in DOMAIN task : TaskSort(i)
    \/ \E i \in DOMAIN task : TaskDone(i)
    \/ WgWait
    \/ MergeBegin
    \/ MergeStep
    \/ MergeReturn
    \/ PrintBefore
    \/ PrintAfter
    \/ PrintFinal

\* the pipeline as the caller modes run it
Spec == Init /\ [][Next]_vars

\* processAndPrint called a second time, on the sequence its first call
\* returned
RunAgain ==
    /\ pc = "done"
    /\ firstResult = <<>>
    /\ firstResult' = <<result>>
    /\ numbers' = result
    /\ original' = result
    /\ pc' = "split"
    /\ console' = <<>>
    /\ chunks' = <<>>
    /\ wg' = 0
    /\ spawned' = 0
    /\ task' = <<>>
    /\ touched' = <<>>
    /\ indices' = <<>>
    /\ result' = <<>>
    /\ minChunk' = -1
    /\ UNCHANGED <<mode, files, next, out, ioFailed>>

NextTwice ==
    \/ Next
    \/ RunAgain

\* the pipeline run on an input and then once more on what it returned
SpecTwice == Init /\ [][NextTwice]_vars

\* runRandom on inputs long enough for four and for five sort tasks
InitFair ==
    /\ \E n \in (MinNumbers - 1)..MaxFairLen : numbers = Desc(n)
    /\ original = numbers
    /\ pc = "start"
    /\ Idle
    /\ NoEnv("r")

\* what the calling goroutine does
MainStep ==
    \/ CallerReject
    \/ CallerAccept
    \/ SplitIntoChunks
    \/ WgAdd
    \/ Spawn
    \/ WgWait
    \/ MergeBegin
    \/ MergeStep
    \/ MergeReturn
    \/ PrintBefore
    \/ PrintAfter
    \/ PrintFinal

\* what sort goroutine i does
TaskStep(i) == i \in DOMAIN task /\ (TaskSort(i) \/ TaskDone(i))

\* the scheduler runs every goroutine that can run: the caller and each of
\* the sort goroutines
SpecFair ==
    /\ InitFair
    /\ [][Next]_vars
    /\ WF_vars(MainStep)
    /\ \A i \in 0..(numChunksOf(MaxFairLen) - 1) : WF_vars(TaskStep(i))

NextSplit == SplitIntoChunks

NextModes ==
    \/ Next
    \/ ReadFile
    \/ DirBegin
    \/ DirLoop
    \/ DirWrite

\* the three caller modes, from the call main makes to the return
SpecModes == InitModes /\ [][NextModes]_vars

\* splitIntoChunks on its own, for every length
SpecSplit == InitSplit /\ [][NextSplit]_vars

NextMerge ==
    \/ MergeBegin
    \/ MergeStep
    \/ MergeReturn

\* mergeSortedChunks on its own, for every collection of ascending chunks
SpecMerge == InitMerge /\ [][NextMerge]_vars

\* the same with the calling goroutine kept running: it is never blocked
\* inside mergeSortedChunks, so a step that can be taken is taken
SpecMergeFair == InitMergeFair /\ [][NextMerge]_vars /\ WF_vars(NextMerge)

-----------------------------------------------------------------------------
(* Properties of the pipeline (Spec) *)

AfterBarrier == pc \in {"print_after", "merge_begin", "merge", "print_final", "done"}

\* C1: for every input of length >= 10, the merged output of split, concurrent
\* sort and merge is a permutation of the input and is non-decreasing.
C1_RoundTrip ==
    (pc = "done" /\ Len(original) >= 10) =>
        /\ SameMultiset(result, original)
        /\ NonDecreasing(result)

\* an unsorted input of length >= 10 has gone through the pipeline
C1_Witness ==
    /\ pc = "done"
    /\ Len(original) >= 10
    /\ ~NonDecreasing(original)
    /\ result # original

\* C2: sortChunksConcurrently returns, and the merge starts, only after every
\* chunk's sort task has completed: there is one task per chunk and none is
\* unfinished once the caller is past wg.Wait().
C2_Barrier ==
    AfterBarrier =>
        /\ DOMAIN task = ChunkIds
        /\ \A i \in ChunkIds : task[i] = "done"
        /\ wg = 0

\* the merge has emitted elements of chunks that four tasks sorted
C2_Witness ==
    /\ pc = "merge"
    /\ result # <<>>
    /\ NumChunks >= 4
    /\ \A i \in ChunkIds : task[i] = "done"

\* C3: during the sort phase task i accesses only positions of chunk i, and
\* the positions any two distinct tasks access are disjoint.
C3_DisjointAccess ==
    \A i \in DOMAIN touched :
        /\ touched[i] \subseteq ChunkPositions(i)
        /\ \A j \in DOMAIN touched : i # j => touched[i] \cap touched[j] = {}

\* two tasks have sorted non-empty chunks and neither has signalled yet
C3_Witness ==
    /\ pc = "sorting"
    /\ \E i, j \in DOMAIN task :
         /\ i # j
         /\ task[i] = "sorted" /\ task[j] = "sorted"
         /\ touched[i] # {} /\ touched[j] # {}

OriginalChunk(i) == Slice(original, chunks[i].lo, chunks[i].hi)

\* C4: whatever the order in which the tasks run and complete, each chunk holds
\* the original chunk, sorted once its task has sorted it and untouched before,
\* so the chunks after the barrier and the merged output are determined by the
\* input alone.
C4_ScheduleIndependent ==
    /\ (pc = "sorting" \/ AfterBarrier) =>
          \A i \in ChunkIds :
              Chunk(i) = IF task[i] \in {"sorted", "done"}
                         THEN SortInts(OriginalChunk(i))
                         ELSE OriginalChunk(i)
    /\ pc = "done" => result = SortInts(original)

\* the last task sorted its chunk while the first, whose chunk is unsorted, has
\* not run yet
C4_Witness ==
    /\ pc = "sorting"
    /\ NumChunks >= 2
    /\ task[NumChunks - 1] \in {"sorted", "done"}
    /\ Chunk(NumChunks - 1) # OriginalChunk(NumChunks - 1)
    /\ task[0] = "ready"
    /\ ~NonDecreasing(Chunk(0))

\* C5 as stated: after the pipeline has run, the caller's sequence holds the
\* same values at the same positions as before the call.
C5_InputImmutable == pc = "done" => numbers = original

-----------------------------------------------------------------------------
(* Properties of splitIntoChunks (SpecSplit) *)

\* C6: splitIntoChunks creates max(4, least k with k*k >= n) chunks for every
\* length n; 4 chunks for n = 5 and n = 10, 10 chunks for n = 100.
C6_ChunkCount ==
    pc = "add" =>
        LET n == Len(numbers)
            k == CHOOSE k \in 0..n : k * k >= n /\ \A j \in 0..(k - 1) : j * j < n
        IN  /\ NumChunks = Max(4, k)
            /\ n \in {5, 10} => NumChunks = 4
            /\ n = 100 => NumChunks = 10

\* a slice of 100 numbers has been split
C6_Witness == pc = "add" /\ Len(numbers) = 100 /\ NumChunks = 10

\* C7: chunk i has base+1 elements when i < remainder and base otherwise, so
\* sizes differ by at most 1 and do not increase with the chunk index; for
\* n = 10 the sizes are 3, 3, 2, 2.
C7_ChunkSizes ==
    pc = "add" =>
        LET n == Len(numbers)
            base == n \div NumChunks
            remainder == n % NumChunks
        IN  /\ \A i \in ChunkIds :
                 ChunkLen(i) = IF i < remainder THEN base + 1 ELSE base
            /\ \A i, j \in ChunkIds :
                 /\ ChunkLen(i) - ChunkLen(j) <= 1
                 /\ i < j => ChunkLen(i) >= ChunkLen(j)
            /\ n = 10 => [i \in ChunkIds |-> ChunkLen(i)] = [i \in 0..3 |-> IF i < 2 THEN 3 ELSE 2]

\* a slice whose length is no multiple of the chunk count has been split
C7_Witness ==
    /\ pc = "add"
    /\ Len(numbers) % NumChunks # 0
    /\ \E i, j \in ChunkIds : ChunkLen(i) # ChunkLen(j)

\* the chunks 0..i-1 read through their headers, one after another
RECURSIVE ChunksConcat(_)
ChunksConcat(i) == IF i = 0 THEN <<>> ELSE ChunksConcat(i - 1) \o Chunk(i - 1)

RECURSIVE ChunkLenSum(_)
ChunkLenSum(i) == IF i = 0 THEN 0 ELSE ChunkLenSum(i - 1) + ChunkLen(i - 1)

\* C8: for every length n >= 0 splitIntoChunks never slices outside the input,
\* chunk 0 starts at 0, chunk i starts where chunk i-1 ends, the last chunk
\* ends at n, the lengths add up to n and the chunks in order are the input.
C8_ExactCover ==
    /\ pc # "panic"
    /\ pc = "add" =>
        /\ \A i \in ChunkIds : SliceInRange(chunks[i], Len(numbers))
        /\ chunks[0].lo = 0
        /\ \A i \in ChunkIds \ {0} : chunks[i].lo = chunks[i - 1].hi
        /\ chunks[NumChunks - 1].hi = Len(numbers)
        /\ ChunkLenSum(NumChunks) = Len(numbers)
        /\ ChunksConcat(NumChunks) = numbers
        /\ numbers = original

\* a slice shorter than the chunk count has been split: some chunks are empty
C8_Witness ==
    /\ pc = "add"
    /\ Len(numbers) > 0
    /\ Len(numbers) < NumChunks
    /\ \E i \in ChunkIds : ChunkLen(i) = 0

-----------------------------------------------------------------------------
(* Properties of mergeSortedChunks (SpecMerge) *)

\* occurrences of v in the chunks 0..i-1
RECURSIVE ChunksCount(_, _)
ChunksCount(i, v) ==
    IF i = 0 THEN 0 ELSE ChunksCount(i - 1, v) + Count(Chunk(i - 1), v)

ChunksAscending == \A i \in ChunkIds : NonDecreasing(Chunk(i))

\* C9: for chunks that are each ascending (any number, unequal sizes, empty
\* ones allowed) mergeSortedChunks returns a non-decreasing sequence whose
\* multiset is the union of the chunks' multisets; [[1,4,7],[2,5],[3,6,8,9]]
\* gives [1,...,9].
C9_MergeCorrect ==
    (pc = "done" /\ ChunksAscending) =>
        /\ NonDecreasing(result)
        /\ Len(result) = ChunkLenSum(NumChunks)
        /\ \A v \in Elems(result) \cup Elems(numbers) :
               Count(result, v) = ChunksCount(NumChunks, v)
        /\ [i \in ChunkIds |-> Chunk(i)] = MergeExample =>
               result = <<1, 2, 3, 4, 5, 6, 7, 8, 9>>

\* chunks of unequal sizes, one of them empty, have been merged
C9_Witness ==
    /\ pc = "done"
    /\ ChunksAscending
    /\ NumChunks >= 3
    /\ \E i, j, k \in ChunkIds :
         ChunkLen(i) = 0 /\ ChunkLen(j) = 1 /\ ChunkLen(k) >= 2
    /\ \E j \in 1..(Len(result) - 1) : result[j] < result[j + 1]

\* C10: each merge step advances exactly one cursor, that of the lowest-indexed
\* non-exhausted chunk whose cursor element is the minimum over the
\* non-exhausted chunks, and emits that element.
C10_TieBreak ==
    [][(pc = "merge" /\ result' # result) =>
        \E a \in ChunkIds :
            /\ ~Exhausted(a)
            /\ indices' = [indices EXCEPT ![a] = @ + 1]
            /\ minChunk' = a
            /\ result' = Append(result, Cursor(a))
            /\ \A j \in ChunkIds : ~Exhausted(j) => Cursor(a) <= Cursor(j)
            /\ \A j \in ChunkIds :
                 (j < a /\ ~Exhausted(j)) => Cursor(j) # Cursor(a)]_vars

\* the last step took its element from chunk minChunk while a higher-indexed
\* chunk, not exhausted, offered the same value
C10_Witness ==
    /\ pc = "merge"
    /\ minChunk # -1
    /\ \E j \in ChunkIds :
         /\ j > minChunk
         /\ ~Exhausted(j)
         /\ Cursor(j) = result[Len(result)]

\* the cursors are in range, the loop can break exactly when every cursor is at
\* its chunk's end, and then the output has every element
C11_Inv ==
    /\ pc # "panic"
    /\ pc \in {"merge", "done"} =>
          \A i \in ChunkIds : 0 <= indices[i] /\ indices[i] <= ChunkLen(i)
    /\ pc = "merge" =>
          (ENABLED MergeReturn <=> \A i \in ChunkIds : indices[i] = ChunkLen(i))
    /\ pc = "done" =>
          /\ \A i \in ChunkIds : indices[i] = ChunkLen(i)
          /\ Len(result) = ChunkLenSum(NumChunks)

\* C11: mergeSortedChunks terminates, exactly when every cursor equals its
\* chunk's length, with as many output elements as the chunks hold; exhausted
\* and empty chunks are skipped without an out-of-range read.
C11_MergeTerminates == []C11_Inv /\ <>(pc = "done")

\* a collection with an empty and a non-empty chunk has been merged
C11_Witness ==
    /\ pc = "done"
    /\ \E i, j \in ChunkIds : ChunkLen(i) = 0 /\ ChunkLen(j) >= 2
    /\ Len(result) >= 2


\* the program is between the entry of splitIntoChunks and the end of what
\* its caller does with the merged result
InPipeline ==
    pc \in {"split", "print_before", "add", "sorting", "print_after",
            "merge_begin", "merge", "print_final", "write"}

C12_Inv ==
    /\ InPipeline => Len(numbers) >= 10 /\ Len(original) >= 10
    /\ chunks # <<>> => Len(original) >= 10
    /\ pc = "done" /\ Prints => Len(original) >= 10 /\ Len(result) >= 10
    /\ \A k \in DOMAIN out : out[k].written => Len(out[k].data) >= 10

C12_Step ==
    pc = "start" /\ Len(numbers) < 10 => pc' = "error" /\ chunks' = <<>>

\* C12: in each of the three caller modes the pipeline runs only on a
\* sequence of at least ten integers: nothing is split, sorted, merged,
\* reported as a result or written for a shorter input, and a shorter input
\* ends the invocation with an error before splitIntoChunks is entered.
C12_PipelineNeedsTen == []C12_Inv /\ [][C12_Step]_vars

\* a file of nine integers was read in directory mode and rejected
C12_Witness ==
    /\ mode = "d"
    /\ pc = "error"
    /\ Len(numbers) = 9
    /\ chunks = <<>>
    /\ ~ioFailed

\* the file a directory run is at has failed when the run is in its error state
C13_Inv ==
    mode = "d" =>
        /\ \A k \in DOMAIN out : out[k].written => k < next
        /\ pc = "error" => \A k \in DOMAIN out : k >= next => ~out[k].written
        /\ pc = "error" => ~ENABLED NextModes
        /\ pc = "done" => \A k \in DOMAIN files :
               files[k].txt => ~readFails(files[k]) /\ out[k].written

C13_Step ==
    mode = "d" =>
        /\ \A k \in DOMAIN out : out[k].written => out'[k] = out[k]
        /\ next' \in {next, next + 1}
        /\ pc = "read" /\ readFails(files[next]) => pc' = "error" /\ next' = next
        /\ pc = "start" /\ Len(numbers) < 10 => pc' = "error" /\ next' = next
        /\ pc = "write" /\ out' = out => pc' = "error" /\ next' = next

\* C13: directory mode takes the files one after another and stops at the
\* first one that fails: the run ends in error there, no output exists for
\* that file or for any later one, and an output written for an earlier file
\* is never changed afterwards.
C13_DirectoryAborts == []C13_Inv /\ [][C13_Step]_vars

\* the second file of a directory failed after the first was written
C13_Witness ==
    /\ mode = "d"
    /\ pc = "error"
    /\ next = 2
    /\ Len(files) = 2
    /\ out[1].written
    /\ ~out[2].written
    /\ readFails(files[2])

\* C14: every I/O failure is fatal: a run in which an operation on a file or
\* directory failed, the write of a number included, does not return success.
C14_IOFatal == pc = "done" => ~ioFailed

-----------------------------------------------------------------------------
(* Properties of the reports, of repeated runs and of the stages' frames *)

ReportTags == <<"original", "before", "after", "final">>

C15_Inv ==
    /\ ~Prints => console = <<>>
    /\ Prints =>
        /\ Len(console) <= 4
        /\ \A j \in DOMAIN console : console[j].tag = ReportTags[j]
        /\ pc = "done" <=> Len(console) = 4
        /\ Len(console) >= 1 => console[1].shown = original
        /\ Len(console) >= 2 =>
               console[2].shown = [i \in ChunkIds |-> OriginalChunk(i)]
        /\ Len(console) >= 3 =>
               console[3].shown = [i \in ChunkIds |-> SortInts(OriginalChunk(i))]
        /\ Len(console) >= 4 => console[4].shown = result
        /\ Len(console) < 2 => task = <<>>
        /\ pc = "sorting" => Len(console) = 2
        /\ Len(console) >= 3 => \A i \in ChunkIds : task[i] = "done"

\* C15: in random and single-file mode the console shows, in this order, the
\* original sequence, the chunks before sorting, the chunks after sorting and
\* the merged result; the first two are printed while no sort task exists and
\* show the unsorted input and chunks, the third is printed only when every
\* sort task has completed and shows the sorted chunks.
C15_ReportOrder == []C15_Inv /\ [][Prints => console' = console \/ Len(console') = Len(console) + 1]_vars

\* a file's run has printed its four reports, the chunks differing before and
\* after the sort
C15_Witness ==
    /\ mode = "i"
    /\ pc = "done"
    /\ Len(console) = 4
    /\ console[2].shown # console[3].shown
    /\ console[4].shown # console[1].shown

\* C16: a non-decreasing input comes out of the pipeline unchanged, and the
\* pipeline run again on its own output returns that output.
C16_Idempotent ==
    /\ pc = "done" /\ NonDecreasing(original) => result = original
    /\ pc = "done" /\ firstResult # <<>> => result = firstResult[1]

\* the second run, on an output holding different values, has returned
C16_Witness ==
    /\ pc = "done"
    /\ firstResult # <<>>
    /\ result = firstResult[1]
    /\ Cardinality(Elems(result)) >= 2

C17_Inv ==
    /\ pc = "sorting" =>
           \A i \in ChunkIds : SameMultiset(Chunk(i), OriginalChunk(i))
    /\ pc \in {"print_after", "merge_begin"} =>
        /\ NumChunks = numChunksOf(Len(original))
        /\ Len(numbers) = Len(original)
        /\ \A i \in ChunkIds :
            /\ NonDecreasing(Chunk(i))
            /\ SameMultiset(Chunk(i), OriginalChunk(i))
            /\ Len(Chunk(i)) = chunks[i].hi - chunks[i].lo

C17_Step ==
    pc \in {"add", "sorting"} => chunks' = chunks /\ Len(numbers') = Len(numbers)

\* C17: sortChunksConcurrently leaves the number of chunks and each chunk's
\* length and place in the input as they were; when it returns each chunk is
\* ascending and a permutation of what it held at the call, so no element has
\* moved from one chunk to another.
C17_SortFrame == []C17_Inv /\ [][C17_Step]_vars

\* sortChunksConcurrently has returned after sorting a chunk that was unsorted
C17_Witness ==
    /\ pc = "print_after"
    /\ \E i \in ChunkIds : Chunk(i) # OriginalChunk(i)
    /\ \E i \in ChunkIds : Chunk(i) = OriginalChunk(i) /\ ChunkLen(i) >= 2

TasksDone == {i \in DOMAIN task : task[i] = "done"}

C18_Inv ==
    /\ wg >= 0
    /\ pc # "panic"
    /\ pc \in {"split", "print_before", "add"} => task = <<>> /\ wg = 0
    /\ pc = "sorting" =>
        /\ wg = NumChunks - Cardinality(TasksDone)
        /\ ENABLED WgWait <=> TasksDone = ChunkIds
    /\ AfterBarrier => wg = 0 /\ TasksDone = ChunkIds

C18_Step ==
    /\ pc = "add" => wg' = NumChunks /\ \A i \in ChunkIds : task'[i] = "none"
    /\ pc = "sorting" =>
        /\ \A i \in ChunkIds : task[i] = "done" => task'[i] = "done"
        /\ wg' # wg =>
            /\ wg' = wg - 1
            /\ \E i \in ChunkIds :
                /\ task[i] = "sorted" /\ task'[i] = "done"
                /\ \A j \in ChunkIds \ {i} : task'[j] = task[j]

\* C18: with every goroutine that can run scheduled eventually,
\* sortChunksConcurrently returns; the counter is the number of chunks before
\* the first task is spawned, goes down by one exactly when a task finishes,
\* each task finishing once, is never negative, and the wait is released
\* exactly when every task has finished.
C18_BarrierTerminates ==
    /\ []C18_Inv
    /\ [][C18_Step]_vars
    /\ (pc = "add") ~> AfterBarrier

\* five sort tasks have finished and the caller has been released
C18_Witness ==
    /\ pc = "print_after"
    /\ NumChunks = 5
    /\ wg = 0
    /\ TasksDone = ChunkIds

RECURSIVE IndexSum(_)
IndexSum(i) == IF i = 0 THEN 0 ELSE IndexSum(i - 1) + indices[i - 1]

\* the elements of chunk i from its cursor on
Remaining(i) == {numbers[chunks[i].lo + j] : j \in (indices[i] + 1)..ChunkLen(i)}

C19_Inv ==
    (pc \in {"merge", "done"} /\ ChunksAscending) =>
        /\ \A i \in ChunkIds : 0 <= indices[i] /\ indices[i] <= ChunkLen(i)
        /\ Len(result) = IndexSum(NumChunks)
        /\ numbers = original
        /\ \A v \in Elems(result) : \A i \in ChunkIds : \A w \in Remaining(i) : v <= w

C19_Step ==
    /\ chunks' = chunks
    /\ numbers' = numbers
    /\ pc = "merge_begin" => \A i \in ChunkIds : indices'[i] = 0
    /\ pc = "merge" /\ pc' = "merge" =>
           \E i \in ChunkIds : indices' = [indices EXCEPT ![i] = indices[i] + 1]
    /\ pc = "merge" /\ pc' # "merge" => indices' = indices

\* C19: all through mergeSortedChunks on ascending chunks every cursor starts
\* at 0, exactly one cursor goes up, by one, in each iteration, and each stays
\* within 0..len(chunk); the output is as long as the cursors' sum; the chunks
\* are never modified; every value emitted is <= every value still to emit.
C19_MergeInvariants == []C19_Inv /\ [][C19_Step]_vars

\* in the middle of a merge: two cursors have moved, one chunk is used up and
\* another has not been touched
C19_Witness ==
    /\ pc = "merge"
    /\ \E i, j \in ChunkIds : i # j /\ indices[i] >= 1 /\ indices[j] >= 1
    /\ \E i \in ChunkIds : ChunkLen(i) >= 1 /\ indices[i] = ChunkLen(i)
    /\ \E i \in ChunkIds : ChunkLen(i) >= 1 /\ indices[i] = 0

\* C20: for every length n >= 4, so for every n >= 10, the number of chunks
\* is at most n and every chunk splitIntoChunks makes is non-empty; an empty
\* chunk is made only for n < 4.
C20_NoEmptyChunk ==
    pc = "add" =>
        /\ Len(numbers) >= 4 =>
            /\ NumChunks <= Len(numbers)
            /\ \A i \in ChunkIds : ChunkLen(i) >= 1
        /\ (\E i \in ChunkIds : ChunkLen(i) = 0) => Len(numbers) < 4

\* four elements have been split into four chunks of one element
C20_Witness ==
    /\ pc = "add"
    /\ Len(numbers) = 4
    /\ NumChunks = 4
    /\ \A i \in ChunkIds : ChunkLen(i) = 1


====
